---- MODULE Spec2Model ----
(***************************************************************************)
(* Company registry cache: the record freshness and refresh pipeline of    *)
(* src/src/services/company_service.py, with the parser                    *)
(* (src/src/parsers/company_parser.py), the unit of work                    *)
(* (src/src/utils/unitofwork.py), the repository                            *)
(* (src/src/utils/repository.py) and the scheduler                          *)
(* (src/src/schedulers/company_scheduler.py).                               *)
(*                                                                         *)
(* Texts are sequences of tokens: "sp" is a whitespace character, "cp" is  *)
(* the word the parser strips ("копіювати"), every other token is a word.  *)
(* Python's None is the one-token text NoneV; the empty dict that          *)
(* extract_tax_info returns is DictV.                                      *)
(***************************************************************************)
EXTENDS Integers, Sequences, FiniteSets, TLC

\* ------------------------------------------------------------------ bounds

\* The clock runs from 0 to MaxTime.
MaxTime == 2
\* Handler invocations (requests and scheduler jobs) started in one behaviour.
MaxOps == 3
\* Rows the companies id sequence hands out.
MaxCompanyIds == 2
\* Rows the user_subscriptions id sequence hands out.
MaxSubIds == 2

\* The clock of the scheduler's specification runs from 0 to MaxSchedTime.
MaxSchedTime == 4

\* timedelta(days=1), in clock ticks.
OneDay == 1

\* ------------------------------------------------------------------ values

NoneV == <<"None">>
DictV == <<"{}">>
Absent == <<"absent">>

Codes == {<<"c1">>, <<"c2">>}
Users == {1, 2}
Sources == {"youcontrol", "clarity", "other"}

AttrFields ==
    {"name", "status", "registration_date", "authorized_capital", "legal_form",
     "main_activity", "contact_info", "authorized_person", "tax_info",
     "registration_authorities", "last_inspection_date", "company_profile"}

\* The keys of CompanyDataModel.dict(exclude={"id"}).
DataFields == AttrFields \cup {"code", "last_updated"}

\* ------------------------------------------------------------------ parser

RECURSIVE DropTok(_, _)
DropTok(text, tok) ==
    IF text = <<>> THEN <<>>
    ELSE IF Head(text) = tok THEN DropTok(Tail(text), tok)
    ELSE <<Head(text)>> \o DropTok(Tail(text), tok)

\* " ".join(text.split()): no leading or trailing whitespace, runs collapsed.
RECURSIVE JoinSplit(_, _)
JoinSplit(text, pendingSpace) ==
    IF text = <<>> THEN <<>>
    ELSE IF Head(text) = "sp" THEN JoinSplit(Tail(text), TRUE)
    ELSE (IF pendingSpace THEN <<"sp">> ELSE <<>>) \o <<Head(text)>>
         \o JoinSplit(Tail(text), FALSE)

StripLeading(text) ==
    IF text # <<>> /\ Head(text) = "sp" THEN Tail(text) ELSE text

clean_text(text) ==
    IF text = <<>> \/ text = NoneV THEN NoneV
    ELSE StripLeading(JoinSplit(DropTok(text, "cp"), FALSE))

\* extract_tax_info: {} when the page has no tax rows, else the joined keys.
extract_tax_info(rows) ==
    IF rows = Absent THEN DictV
    ELSE StripLeading(JoinSplit(DropTok(rows, "cp"), FALSE))

ListFields == {"main_activity", "authorized_person", "registration_authorities"}

\* One youcontrol field from the element texts of the page.
YouControlField(f, els) ==
    CASE f \in ListFields -> clean_text(IF els[f] = Absent THEN <<>> ELSE els[f])
      [] f = "tax_info" -> extract_tax_info(els[f])
      [] f = "last_inspection_date" ->
             clean_text(IF els[f] = Absent THEN <<>> ELSE els[f])
      [] f = "contact_info" ->
             IF els[f] = Absent THEN NoneV
             ELSE LET loc == clean_text(els[f])
                  IN IF loc = NoneV \/ loc = <<>> THEN <<>>
                     ELSE <<"Address:", "sp">> \o loc
      [] OTHER -> IF els[f] = Absent THEN NoneV ELSE clean_text(els[f])

\* clarity_data: the cleaned second cell of every two-cell row.
RECURSIVE ClarityData(_)
ClarityData(cells) ==
    IF cells = <<>> THEN <<>>
    ELSE <<clean_text(Head(cells))>> \o ClarityData(Tail(cells))

clean_registration_authorities(raw) ==
    IF raw = <<>> \/ raw = NoneV THEN NoneV ELSE StripLeading(raw)

ClarityAt(cd, i) == IF Len(cd) > i THEN cd[i + 1] ELSE NoneV

ClarityField(f, cd) ==
    CASE f = "name" -> ClarityAt(cd, 1)
      [] f = "status" -> ClarityAt(cd, 4)
      [] f = "registration_date" -> ClarityAt(cd, 5)
      [] f = "authorized_capital" -> ClarityAt(cd, 6)
      [] f = "legal_form" -> ClarityAt(cd, 2)
      [] f = "main_activity" -> ClarityAt(cd, 10)
      [] f = "contact_info" -> ClarityAt(cd, 3)
      [] f = "authorized_person" -> ClarityAt(cd, 6)
      [] f = "tax_info" -> ClarityAt(cd, 8)
      [] f = "registration_authorities" ->
             IF Len(cd) > 9 THEN clean_registration_authorities(cd[10]) ELSE NoneV
      [] OTHER -> NoneV

\* A dict no parse produced.
NoData == [f \in DataFields |-> IF f = "last_updated" THEN 0 ELSE NoneV]

\* A response of the registry: the transport outcome and the page content.
\* status: "ok" (200), "http_error" (raise_for_status raises), "unreachable".
Response(status, table, els, cells) ==
    [status |-> status, table |-> table, els |-> els, cells |-> cells]

Failed(err) == [ok |-> FALSE, err |-> err, data |-> NoData]

\* parse_company that requests the page before it looks at the source name.
parse_company_FetchFirst(company_code, source, resp, t) ==
    IF resp.status = "unreachable" THEN Failed("ConnectionError")
    ELSE IF resp.status = "http_error" THEN Failed("HTTPError")
    ELSE IF source \notin {"youcontrol", "clarity"} THEN Failed("ValueError")
    ELSE IF source = "youcontrol"
    THEN [ok |-> TRUE, err |-> "",
          data |-> [f \in DataFields |->
                      CASE f = "code" -> company_code
                        [] f = "last_updated" -> t
                        [] OTHER -> YouControlField(f, resp.els)]]
    ELSE IF ~resp.table THEN Failed("ValueError")
    ELSE LET cd == ClarityData(resp.cells)
         IN [ok |-> TRUE, err |-> "",
             data |-> [f \in DataFields |->
                         CASE f = "code" ->
                                  IF Len(cd) > 0 THEN cd[1] ELSE company_code
                           [] f = "last_updated" -> t
                           [] OTHER -> ClarityField(f, cd)]]

\* parse_company: the dict it returns, or the exception it raises.
parse_company(company_code, source, resp, t) ==
    IF source \notin {"youcontrol", "clarity"} THEN Failed("ValueError")
    ELSE IF resp.status = "unreachable" THEN Failed("ConnectionError")
    ELSE IF resp.status = "http_error" THEN Failed("HTTPError")
    ELSE IF source = "youcontrol"
    THEN [ok |-> TRUE, err |-> "",
          data |-> [f \in DataFields |->
                      CASE f = "code" -> company_code
                        [] f = "last_updated" -> t
                        [] OTHER -> YouControlField(f, resp.els)]]
    ELSE IF ~resp.table THEN Failed("ValueError")
    ELSE LET cd == ClarityData(resp.cells)
         IN [ok |-> TRUE, err |-> "",
             data |-> [f \in DataFields |->
                         CASE f = "code" ->
                                  IF Len(cd) > 0 THEN cd[1] ELSE company_code
                           [] f = "last_updated" -> t
                           [] OTHER -> ClarityField(f, cd)]]

\* CompanyDataModel(**data): code is a str, every attribute a str or None.
ModelValid(data) ==
    /\ data.code # NoneV
    /\ \A f \in AttrFields : data[f] # DictV

\* CompanyDataModel that drops the fetch's timestamp: last_updated is 0.
CompanyDataModel_Unstamped(id, data) ==
    [f \in DataFields \cup {"id"} |->
        IF f = "id" THEN id ELSE IF f = "last_updated" THEN 0 ELSE data[f]]

\* CompanyDataModel with its id; id 0 is None.
CompanyDataModel(id, data) ==
    [f \in DataFields \cup {"id"} |-> IF f = "id" THEN id ELSE data[f]]

\* model.dict(exclude={"id"})
DictExcludeId(model) == [f \in DataFields |-> model[f]]

\* ------------------------------------------------------------------ pages

Word(w) == <<w>>

\* A youcontrol page with every element present, its words all w.
FullEls(w) == [f \in AttrFields |-> <<"sp", w, "cp">>]

NoEls == [f \in AttrFields |-> Absent]

YouControlPages ==
    { Response("ok", FALSE, FullEls("a"), <<>>),
      Response("ok", FALSE, [FullEls("a") EXCEPT !["status"] = Word("b")], <<>>),
      Response("ok", FALSE, [FullEls("a") EXCEPT !["tax_info"] = Absent], <<>>) }

\* A clarity table of eleven two-cell rows, the first holding the code.
ClarityCells(code, w) == <<code>> \o [i \in 1..10 |-> <<w, "sp">>]

ClarityPages(code) ==
    { Response("ok", TRUE, NoEls, ClarityCells(code, "a")),
      Response("ok", FALSE, NoEls, <<>>) }

\* What requests.get may answer for a code and a source.
Responses(code, source) ==
    { Response("http_error", FALSE, NoEls, <<>>) }
    \cup (IF source = "clarity" THEN ClarityPages(code) ELSE YouControlPages)

\* The youcontrol pages that differ from the full page in one element: its
\* text is another word, or the element is missing.
OneElementPages ==
    { Response("ok", FALSE, FullEls("a"), <<>>) }
    \cup { Response("ok", FALSE, [FullEls("a") EXCEPT ![f] = t], <<>>) :
             f \in AttrFields, t \in {Word("b"), Absent} }

\* The clarity tables of zero to eleven rows.
ShortTables(code) ==
    { Response("ok", TRUE, NoEls, SubSeq(ClarityCells(code, "a"), 1, n)) : n \in 0..11 }

\* The clarity tables whose first two-cell row holds another value than the
\* code asked for.
OtherCodeTables(code) ==
    { Response("ok", TRUE, NoEls, ClarityCells(other, "a")) : other \in Codes \ {code} }

\* A page answered with status 200 that holds none of the elements either
\* source is read for: no youcontrol element, no clarity table.
EmptyPage == Response("ok", FALSE, NoEls, <<>>)

\* The clarity tables whose first two-cell row has no value: the cell is
\* empty, or holds the copy button's text only.
EmptyCodeTables(code) ==
    { Response("ok", TRUE, NoEls, <<first>> \o Tail(ClarityCells(code, "a"))) :
        first \in {<<>>, <<"cp">>} }

AllResponses(code, source) ==
    { Response("http_error", FALSE, NoEls, <<>>), EmptyPage }
    \cup (IF source = "clarity"
          THEN ShortTables(code) \cup OtherCodeTables(code) \cup EmptyCodeTables(code)
          ELSE OneElementPages)

\* A code the registry no longer serves, and one it always serves.
DeadCode == <<"c1">>
LiveCode == <<"c2">>

\* A registry that answers an HTTP error for DeadCode and a page for any other.
SteadyResponses(code, source) ==
    IF code = DeadCode THEN { Response("http_error", FALSE, NoEls, <<>>) }
    ELSE { Response("ok", FALSE, FullEls("a"), <<>>),
           Response("ok", FALSE, [FullEls("a") EXCEPT !["status"] = Word("b")], <<>>) }

\* The answers a handler's fetch draws from.
Pool(kind, code, source) ==
    CASE kind = "wide" -> AllResponses(code, source)
      [] kind = "steady" -> SteadyResponses(code, source)
      [] OTHER -> Responses(code, source)

\* ------------------------------------------------------------------ state

Procs == {"p1", "p2", "sched"}
ApiProcs == {"p1", "p2"}

VARIABLES
    now,         \* datetime.utcnow()
    companies,   \* committed rows of the companies table
    subs,        \* committed rows of the user_subscriptions table
    companySeq,  \* last id the companies sequence handed out
    subSeq,      \* last id the user_subscriptions sequence handed out
    pc,          \* each handler's position
    frame,       \* each handler's arguments and locals
    uow,         \* each handler's UnitOfWork: the sessions it has opened
    out,         \* each handler's outcome and what it did
    ops          \* handler invocations started

vars == <<now, companies, subs, companySeq, subSeq, pc, frame, uow, out, ops>>

NoModel == CompanyDataModel(0, NoData)

NoWrite == [kind |-> "none", id |-> 0, data |-> NoData, user |-> 0, cid |-> 0]

Session == [pending |-> <<>>, exits |-> 0]

IdleFrame ==
    [handler |-> "none", code |-> NoneV, source |-> "youcontrol", use_cache |-> TRUE,
     user |-> 0, cid |-> 0, found |-> FALSE, fresh |-> FALSE, company |-> NoModel,
     parsed |-> NoModel, stale |-> <<>>, i |-> 0, users |-> <<>>, attempts |-> <<>>]

\* users: the subscribers notify_subscribers_of_update loops over; attempts:
\* the users notify_user was called for.
\* status, err, value: what reaches the caller. fetches: calls of parse_company;
\* fetch_errors: those that raised; writes: update_one, add_one and
\* add_subscription statements executed; changed: ids of the stored records
\* updated with a different attribute value; fanout: ids of the companies
\* notify_subscribers_of_update was called for.
IdleOut ==
    [status |-> "none", err |-> "", value |-> NoModel, fetches |-> 0,
     fetch_errors |-> 0, writes |-> 0, changed |-> {}, fanout |-> {}]

Init ==
    /\ now = 0
    /\ companies = {}
    /\ subs = {}
    /\ companySeq = 0
    /\ subSeq = 0
    /\ pc = [p \in Procs |-> "idle"]
    /\ frame = [p \in Procs |-> IdleFrame]
    /\ uow = [p \in Procs |-> <<>>]
    /\ out = [p \in Procs |-> IdleOut]
    /\ ops = 0

\* ------------------------------------------------------------------ store

\* A commit that loses UPDATE statements.
ApplyCompanies_InsertOnly(rows, pending) ==
    rows \cup { CompanyDataModel(pending[k].id, pending[k].data) :
                  k \in {j \in 1..Len(pending) : pending[j].kind = "insert"} }

\* A commit that loses INSERT statements.
ApplyCompanies_UpdateOnly(rows, pending) ==
    { LET ks == {j \in 1..Len(pending) :
                    pending[j].kind = "update" /\ pending[j].id = r.id}
      IN IF ks = {} THEN r
         ELSE CompanyDataModel(r.id, pending[CHOOSE k \in ks : \A j \in ks : j <= k].data) :
      r \in rows }

\* A commit whose UPDATE writes last_updated only: the row keeps the attribute
\* values it had and gets the timestamp of the new record.
ApplyCompanies_StampOnly(rows, pending) ==
    { LET ks == {j \in 1..Len(pending) :
                    pending[j].kind = "update" /\ pending[j].id = r.id}
      IN IF ks = {} THEN r
         ELSE [r EXCEPT !.last_updated =
                 pending[CHOOSE k \in ks : \A j \in ks : j <= k].data.last_updated] :
      r \in rows } \cup
    { CompanyDataModel(pending[k].id, pending[k].data) :
        k \in {j \in 1..Len(pending) : pending[j].kind = "insert"} }

\* A commit whose UPDATE removes the row it names.
ApplyCompanies_DeleteOnUpdate(rows, pending) ==
    { r \in rows : ~\E j \in 1..Len(pending) :
                       pending[j].kind = "update" /\ pending[j].id = r.id } \cup
    { CompanyDataModel(pending[k].id, pending[k].data) :
        k \in {j \in 1..Len(pending) : pending[j].kind = "insert"} }

\* Session.commit(): the session's statements reach the tables in order.
RECURSIVE ApplyCompanies(_, _)
ApplyCompanies(rows, pending) ==
    IF pending = <<>> THEN rows
    ELSE LET w == Head(pending)
             next ==
               CASE w.kind = "insert" -> rows \cup {CompanyDataModel(w.id, w.data)}
                 [] w.kind = "update" ->
                      {IF r.id = w.id THEN CompanyDataModel(w.id, w.data) ELSE r : r \in rows}
                 [] OTHER -> rows
         IN ApplyCompanies(next, Tail(pending))

RECURSIVE ApplySubs(_, _)
ApplySubs(rows, pending) ==
    IF pending = <<>> THEN rows
    ELSE LET w == Head(pending)
             next == IF w.kind = "sub"
                     THEN rows \cup {[id |-> w.id, user_id |-> w.user, company_id |-> w.cid]}
                     ELSE rows
         IN ApplySubs(next, Tail(pending))

\* find_one_or_none(code=...) / find_one_or_none(id=...)
RowsByCode(code) == {r \in companies : r.code = code}
RowsById(id) == {r \in companies : r.id = id}

\* The companies table without its unique index on code.
CodeTaken_NoIndex(code, id) == FALSE

\* Company.code, unique=True: a row other than id already holds the code.
CodeTaken(code, id) == \E r \in companies : r.id # id /\ r.code = code

\* The statements other handlers' sessions hold uncommitted.
OthersPending(p) ==
    UNION { UNION { { uow[q][k].pending[j] : j \in 1..Len(uow[q][k].pending) } :
                    k \in 1..Len(uow[q]) } :
            q \in Procs \ {p} }

\* ------------------------------------------------------------------ unit of work

\* UnitOfWork.__aenter__: a new session, and self.session is rebound to it.
Enter(u) == Append(u, Session)

\* The statements self.session holds.
CurPending(u) == u[Len(u)].pending

\* A statement executed on self.session.
Execute(u, w) == [u EXCEPT ![Len(u)].pending = Append(@, w)]

\* UnitOfWork.__aexit__, once per scope the handler entered: each commits or
\* rolls back self.session and closes it, so all of them end the last session.
ExitAll(u) == [u EXCEPT ![Len(u)] = [pending |-> <<>>, exits |-> @.exits + Len(u)]]

\* __aexit__ with the exception ignored: it commits on every exit path.
ExitCompanies_CommitAlways(u, exc) == ApplyCompanies(companies, CurPending(u))

\* __aexit__ with the exception ignored for the subscriptions table.
ExitSubs_CommitAlways(u, exc) == ApplySubs(subs, CurPending(u))

\* What __aexit__ leaves in the tables: self.session.commit() when no exception
\* left the scope, self.session.rollback() when one did.
ExitCompanies(u, exc) == IF exc THEN companies ELSE ApplyCompanies(companies, CurPending(u))
ExitSubs(u, exc) == IF exc THEN subs ELSE ApplySubs(subs, CurPending(u))

\* The handler returns value: every scope exits without an exception.
Return(p, value) ==
    /\ companies' = ExitCompanies(uow[p], FALSE)
    /\ subs' = ExitSubs(uow[p], FALSE)
    /\ uow' = [uow EXCEPT ![p] = ExitAll(@)]
    /\ pc' = [pc EXCEPT ![p] = "done"]
    /\ out' = [out EXCEPT ![p].status = "ok", ![p].value = value]

\* The exception is swallowed: the handler answers as if it had succeeded.
Raise_FailSilent(p, err, fetched) ==
    /\ companies' = ExitCompanies(uow[p], TRUE)
    /\ subs' = ExitSubs(uow[p], TRUE)
    /\ uow' = [uow EXCEPT ![p] = ExitAll(@)]
    /\ pc' = [pc EXCEPT ![p] = "done"]
    /\ out' = [out EXCEPT ![p].status = "ok",
                          ![p].fetches = @ + fetched,
                          ![p].fetch_errors = @ + fetched]

\* The exception leaves a row without attributes behind for the code.
Raise_Placeholder(p, err, fetched) ==
    /\ companies' = companies \cup
                       {CompanyDataModel(0, [NoData EXCEPT !.code = frame[p].code])}
    /\ subs' = ExitSubs(uow[p], TRUE)
    /\ uow' = [uow EXCEPT ![p] = ExitAll(@)]
    /\ pc' = [pc EXCEPT ![p] = "done"]
    /\ out' = [out EXCEPT ![p].status = "error", ![p].err = err,
                          ![p].fetches = @ + fetched,
                          ![p].fetch_errors = @ + fetched]

\* An exception leaves every scope of the handler and reaches its caller.
\* fetched is 1 when the exception is raised by parse_company or by the
\* CompanyDataModel built from its dict, else 0.
Raise(p, err, fetched) ==
    /\ companies' = ExitCompanies(uow[p], TRUE)
    /\ subs' = ExitSubs(uow[p], TRUE)
    /\ uow' = [uow EXCEPT ![p] = ExitAll(@)]
    /\ pc' = [pc EXCEPT ![p] = "done"]
    /\ out' = [out EXCEPT ![p].status = "error", ![p].err = err,
                          ![p].fetches = @ + fetched,
                          ![p].fetch_errors = @ + fetched]

\* ------------------------------------------------------------------ handlers

\* No handler has a result its caller has not taken yet.
Quiet == \A q \in Procs : pc[q] # "done"

\* A request takes the first free slot; the scheduler has its own.
CanStart(p) ==
    /\ Quiet
    /\ pc[p] = "idle"
    /\ ops < MaxOps
    /\ p = "p2" => pc["p1"] # "idle"

\* The cache test without the use_cache flag.
CacheHit_IgnoreFlag(use_cache, found, company, t) ==
    found /\ company.last_updated > t - OneDay

\* The cache test without the one-day window.
CacheHit_NoWindow(use_cache, found, company, t) ==
    use_cache /\ found /\ company.last_updated > t

\* The cache test with >= for >: a record of age max_age is served.
CacheHit_Inclusive(use_cache, found, company, t) ==
    use_cache /\ found /\ company.last_updated >= t - OneDay

\* company.last_updated > datetime.utcnow() - timedelta(days=1)
CacheHit(use_cache, found, company, t) ==
    use_cache /\ found /\ company.last_updated > t - OneDay

\* The stored record is younger than max_age: now - last_updated < max_age.
IsFresh(found, company, t) == found /\ t - company.last_updated < OneDay

\* get_company_data up to its return or its call of fetch_or_update_company.
GetLookup(p, code, source, use_cache) ==
    /\ p \in ApiProcs
    /\ CanStart(p)
    /\ ops' = ops + 1
    /\ LET rows == RowsByCode(code)
           found == rows # {}
           company == IF found THEN CHOOSE r \in rows : TRUE ELSE NoModel
           fr == [IdleFrame EXCEPT !.handler = "get", !.code = code, !.source = source,
                                   !.use_cache = use_cache, !.found = found,
                                   !.fresh = IsFresh(found, company, now),
                                   !.company = company]
       IN /\ frame' = [frame EXCEPT ![p] = fr]
          /\ IF CacheHit(use_cache, found, company, now)
             THEN /\ uow' = [uow EXCEPT ![p] = ExitAll(Enter(<<>>))]
                  /\ pc' = [pc EXCEPT ![p] = "done"]
                  /\ out' = [out EXCEPT ![p] = [IdleOut EXCEPT !.status = "ok",
                                                              !.value = company]]
             ELSE /\ uow' = [uow EXCEPT ![p] = Enter(Enter(<<>>))]
                  /\ pc' = [pc EXCEPT ![p] = "fetch"]
                  /\ out' = [out EXCEPT ![p] = IdleOut]
    /\ UNCHANGED <<now, companies, subs, companySeq, subSeq>>

\* Two records with the same code and the same attribute values.
SameContent(a, b) == \A f \in AttrFields \cup {"code"} : a[f] = b[f]

\* The comparison with one more key excluded: exclude={"id", "name"}.
Differs_SkipName(parsed, stored) ==
    \E f \in DataFields \ {"name"} : parsed[f] # stored[f]

\* parsed.dict(exclude={"id"}) != stored.dict(exclude={"id"})
Differs(parsed, stored) == DictExcludeId(parsed) # DictExcludeId(stored)

\* The sweep's loop moves to its next stale company, or to the commit.
NextStale(fr) ==
    IF fr.i < Len(fr.stale)
    THEN [fr EXCEPT !.i = @ + 1, !.company = fr.stale[fr.i + 1],
                    !.code = fr.stale[fr.i + 1].code, !.parsed = NoModel]
    ELSE fr

AfterItem(p) ==
    IF frame[p].handler = "sweep" /\ frame[p].i < Len(frame[p].stale)
    THEN "fetch" ELSE "commit"

\* parse_company and CompanyDataModel(**parsed), then the comparison with the
\* stored record (fetch_or_update_company, and the body of the sweep's loop).
FetchFrom(p, kind) ==
    /\ Quiet
    /\ pc[p] = "fetch"
    /\ \E resp \in Pool(kind, frame[p].code, frame[p].source) :
         LET r == parse_company(frame[p].code, frame[p].source, resp, now)
             parsed == CompanyDataModel(0, r.data)
         IN IF ~r.ok
            THEN Raise(p, r.err, 1) /\ UNCHANGED frame
            ELSE IF ~ModelValid(r.data)
            THEN Raise(p, "ValidationError", 1) /\ UNCHANGED frame
            ELSE /\ out' = [out EXCEPT ![p].fetches = @ + 1]
                 /\ IF ~frame[p].found
                    THEN /\ pc' = [pc EXCEPT ![p] = "insert"]
                         /\ frame' = [frame EXCEPT ![p].parsed = parsed]
                    ELSE IF Differs(parsed, frame[p].company)
                    THEN /\ pc' = [pc EXCEPT ![p] = "update"]
                         /\ frame' = [frame EXCEPT ![p].parsed = parsed]
                    ELSE /\ pc' = [pc EXCEPT ![p] = AfterItem(p)]
                         /\ frame' = [frame EXCEPT
                                        ![p] = NextStale([@ EXCEPT !.parsed = parsed])]
                 /\ UNCHANGED <<companies, subs, uow>>
    /\ UNCHANGED <<now, companySeq, subSeq, ops>>

Fetch(p) == FetchFrom(p, "small")

\* uow.company.update_one(stored.id, parsed.dict(exclude={"id"}))
Update(p) ==
    /\ Quiet
    /\ pc[p] = "update"
    /\ LET id == frame[p].company.id
           data == DictExcludeId(frame[p].parsed)
       IN /\ ~\E w \in OthersPending(p) : w.kind = "update" /\ w.id = id
          /\ IF CodeTaken(data.code, id)
             THEN Raise(p, "IntegrityError", 0) /\ UNCHANGED frame
             ELSE /\ uow' = [uow EXCEPT ![p] = Execute(@, [NoWrite EXCEPT !.kind = "update",
                                                              !.id = id, !.data = data])]
                  /\ out' = [out EXCEPT ![p].writes = @ + 1,
                                        ![p].changed =
                                            IF SameContent(frame[p].parsed, frame[p].company)
                                            THEN @ ELSE @ \cup {id}]
                  /\ pc' = [pc EXCEPT ![p] = AfterItem(p)]
                  /\ frame' = [frame EXCEPT ![p] = NextStale(@)]
                  /\ UNCHANGED <<companies, subs>>
    /\ UNCHANGED <<now, companySeq, subSeq, ops>>

\* uow.company.add_one(parsed.dict(exclude={"id"}))
Insert(p) ==
    /\ Quiet
    /\ pc[p] = "insert"
    /\ LET data == DictExcludeId(frame[p].parsed)
       IN /\ ~\E w \in OthersPending(p) : w.kind = "insert" /\ w.data.code = data.code
          /\ IF CodeTaken(data.code, 0)
             THEN Raise(p, "IntegrityError", 0) /\ UNCHANGED <<frame, companySeq>>
             ELSE /\ companySeq < MaxCompanyIds
                  /\ companySeq' = companySeq + 1
                  /\ uow' = [uow EXCEPT ![p] = Execute(@, [NoWrite EXCEPT !.kind = "insert",
                                                              !.id = companySeq + 1,
                                                              !.data = data])]
                  /\ out' = [out EXCEPT ![p].writes = @ + 1]
                  /\ pc' = [pc EXCEPT ![p] = "commit"]
                  /\ frame' = [frame EXCEPT ![p].parsed.id = companySeq + 1]
                  /\ UNCHANGED <<companies, subs>>
    /\ UNCHANGED <<now, subSeq, ops>>

\* uow.commit(), then the handler's return through every __aexit__.
Commit(p) ==
    /\ Quiet
    /\ pc[p] = "commit"
    /\ Return(p, frame[p].parsed)
    /\ UNCHANGED <<now, companySeq, subSeq, frame, ops>>

\* uow.commit() raises (the database refuses or is gone).
CommitFail(p) ==
    /\ Quiet
    /\ pc[p] = "commit"
    /\ Raise(p, "DBAPIError", 0)
    /\ UNCHANGED <<now, companySeq, subSeq, frame, ops>>

\* Every order the stale rows may come back in.
Orders(S) ==
    { s \in UNION { [1..n -> S] : n \in {Cardinality(S)} } :
        \A i, j \in 1..Cardinality(S) : i # j => s[i] # s[j] }

\* The stale query with <= for <.
get_stale_records_Inclusive(threshold) ==
    {r \in companies : r.last_updated <= threshold}

\* get_stale_records: last_updated < threshold.
get_stale_records(threshold) == {r \in companies : r.last_updated < threshold}

\* update_outdated_companies: the scheduler's job, up to the sweep's loop.
SweepStart(p) ==
    /\ p = "sched"
    /\ CanStart(p)
    /\ ops' = ops + 1
    /\ \E stale \in Orders(get_stale_records(now - OneDay)) :
         /\ frame' = [frame EXCEPT ![p] =
                        IF stale = <<>>
                        THEN [IdleFrame EXCEPT !.handler = "sweep"]
                        ELSE [IdleFrame EXCEPT !.handler = "sweep", !.stale = stale,
                                               !.i = 1, !.found = TRUE,
                                               !.company = stale[1],
                                               !.code = stale[1].code]]
         /\ pc' = [pc EXCEPT ![p] = IF stale = <<>> THEN "commit" ELSE "fetch"]
    /\ uow' = [uow EXCEPT ![p] = Enter(Enter(<<>>))]
    /\ out' = [out EXCEPT ![p] = IdleOut]
    /\ UNCHANGED <<now, companies, subs, companySeq, subSeq>>

\* subscribe_user_to_company without the test of the lookup's result.
SubStart_NoLookup(p, code, user) ==
    /\ p \in ApiProcs
    /\ CanStart(p)
    /\ ops' = ops + 1
    /\ LET rows == RowsByCode(code)
           found == rows # {}
           company == IF found THEN CHOOSE r \in rows : TRUE ELSE NoModel
       IN frame' = [frame EXCEPT ![p] =
                      [IdleFrame EXCEPT !.handler = "subscribe", !.code = code,
                                        !.user = user, !.found = found,
                                        !.company = company, !.cid = company.id]]
    /\ uow' = [uow EXCEPT ![p] = Enter(<<>>)]
    /\ pc' = [pc EXCEPT ![p] = "sub_check"]
    /\ out' = [out EXCEPT ![p] = IdleOut]
    /\ UNCHANGED <<now, companies, subs, companySeq, subSeq>>

\* subscribe_user_to_company up to the company lookup.
SubStart(p, code, user) ==
    /\ p \in ApiProcs
    /\ CanStart(p)
    /\ ops' = ops + 1
    /\ LET rows == RowsByCode(code)
           found == rows # {}
           company == IF found THEN CHOOSE r \in rows : TRUE ELSE NoModel
           fr == [IdleFrame EXCEPT !.handler = "subscribe", !.code = code, !.user = user,
                                   !.found = found, !.company = company,
                                   !.cid = company.id]
       IN /\ frame' = [frame EXCEPT ![p] = fr]
          /\ IF ~found
             THEN /\ uow' = [uow EXCEPT ![p] = ExitAll(Enter(<<>>))]
                  /\ pc' = [pc EXCEPT ![p] = "done"]
                  /\ out' = [out EXCEPT ![p] = [IdleOut EXCEPT !.status = "error",
                                                   !.err = "CompanyNotFoundError"]]
             ELSE /\ uow' = [uow EXCEPT ![p] = Enter(<<>>)]
                  /\ pc' = [pc EXCEPT ![p] = "sub_check"]
                  /\ out' = [out EXCEPT ![p] = IdleOut]
    /\ UNCHANGED <<now, companies, subs, companySeq, subSeq>>

\* subscription_exists(user_id, company.id)
SubCheck(p) ==
    /\ Quiet
    /\ pc[p] = "sub_check"
    /\ LET rows == {s \in subs : s.user_id = frame[p].user /\ s.company_id = frame[p].cid}
       IN IF Cardinality(rows) > 1
          THEN Raise(p, "MultipleResultsFound", 0)
          ELSE IF rows # {}
          THEN Raise(p, "AlreadySubscribedError", 0)
          ELSE /\ pc' = [pc EXCEPT ![p] = "sub_add"]
               /\ UNCHANGED <<companies, subs, uow, out>>
    /\ UNCHANGED <<now, companySeq, subSeq, frame, ops>>

\* add_subscription(user_id, company.id)
SubAdd(p) ==
    /\ Quiet
    /\ pc[p] = "sub_add"
    /\ subSeq < MaxSubIds
    /\ subSeq' = subSeq + 1
    /\ uow' = [uow EXCEPT ![p] = Execute(@, [NoWrite EXCEPT !.kind = "sub",
                                                !.id = subSeq + 1,
                                                !.user = frame[p].user,
                                                !.cid = frame[p].cid])]
    /\ out' = [out EXCEPT ![p].writes = @ + 1]
    /\ pc' = [pc EXCEPT ![p] = "commit"]
    /\ UNCHANGED <<now, companies, subs, companySeq, frame, ops>>

\* The caller takes the handler's result; the handler's frame is gone.
Respond(p) ==
    /\ pc[p] = "done"
    /\ pc' = [pc EXCEPT ![p] = "idle"]
    /\ frame' = [frame EXCEPT ![p] = IdleFrame]
    /\ uow' = [uow EXCEPT ![p] = <<>>]
    /\ out' = [out EXCEPT ![p] = IdleOut]
    /\ UNCHANGED <<now, companies, subs, companySeq, subSeq, ops>>

Tick ==
    /\ Quiet
    /\ now < MaxTime
    /\ now' = now + 1
    /\ UNCHANGED <<companies, subs, companySeq, subSeq, pc, frame, uow, out, ops>>

Next ==
    \/ Tick
    \/ \E p \in Procs :
         \/ \E code \in Codes, source \in {"youcontrol"}, use_cache \in BOOLEAN :
              GetLookup(p, code, source, use_cache)
         \/ Fetch(p)
         \/ Update(p)
         \/ Insert(p)
         \/ Commit(p)
         \/ CommitFail(p)
         \/ SweepStart(p)
         \/ \E code \in Codes, user \in Users : SubStart(p, code, user)
         \/ SubCheck(p)
         \/ SubAdd(p)
         \/ Respond(p)

Spec == Init /\ [][Next]_vars

\* ------------------------------------------------------------------ one record, every page

FetchAny(p) == FetchFrom(p, "wide")

TheCode == <<"c1">>

\* One company is stored, as a first fetch at time 0 left it.
InitOne ==
    /\ now = 0
    /\ \E source \in {"youcontrol", "clarity"} :
         \E resp \in AllResponses(TheCode, source) :
           LET r == parse_company(TheCode, source, resp, 0)
           IN /\ r.ok
              /\ ModelValid(r.data)
              /\ companies = {CompanyDataModel(1, r.data)}
    /\ subs = {}
    /\ companySeq = 1
    /\ subSeq = 0
    /\ pc = [p \in Procs |-> "idle"]
    /\ frame = [p \in Procs |-> IdleFrame]
    /\ uow = [p \in Procs |-> <<>>]
    /\ out = [p \in Procs |-> IdleOut]
    /\ ops = MaxOps - 1

NextOne ==
    \/ Tick
    \/ \E source \in Sources, use_cache \in BOOLEAN :
         GetLookup("p1", TheCode, source, use_cache)
    \/ FetchAny("p1")
    \/ Update("p1")
    \/ Insert("p1")
    \/ Commit("p1")
    \/ CommitFail("p1")
    \/ Respond("p1")

\* Single refresh cycles of one stored company, over every page.
SpecDiff == InitOne /\ [][NextOne]_vars

\* ------------------------------------------------------------------ the scheduler

\* add_job(update_outdated_companies, 'interval', minutes=5): no max_instances
\* is given, so the scheduler's default of one running instance applies.
max_instances_Unbounded == Cardinality(Procs)

max_instances == 1

\* The instances of the job that are running.
Instances == Cardinality({q \in Procs : frame[q].handler = "sweep" /\ pc[q] # "idle"})

\* The interval trigger fires: the job is submitted unless max_instances of it
\* are running, and runs update_outdated_companies up to the sweep's loop.
TimerFire(p) ==
    /\ Quiet
    /\ pc[p] = "idle"
    /\ Instances < max_instances
    /\ \E stale \in Orders(get_stale_records(now - OneDay)) :
         /\ frame' = [frame EXCEPT ![p] =
                        IF stale = <<>>
                        THEN [IdleFrame EXCEPT !.handler = "sweep"]
                        ELSE [IdleFrame EXCEPT !.handler = "sweep", !.stale = stale,
                                               !.i = 1, !.found = TRUE,
                                               !.company = stale[1],
                                               !.code = stale[1].code]]
         /\ pc' = [pc EXCEPT ![p] = IF stale = <<>> THEN "commit" ELSE "fetch"]
    /\ uow' = [uow EXCEPT ![p] = Enter(Enter(<<>>))]
    /\ out' = [out EXCEPT ![p] = IdleOut]
    /\ UNCHANGED <<now, companies, subs, companySeq, subSeq, ops>>

FetchSteady(p) == FetchFrom(p, "steady")

\* The clock of the scheduler's specification.
TickSched ==
    /\ now < MaxSchedTime
    /\ now' = now + 1
    /\ UNCHANGED <<companies, subs, companySeq, subSeq, pc, frame, uow, out, ops>>

\* The companies stored when the scheduler starts: some of the codes, each as
\* a first fetch at time 0 left it.
InitSched ==
    /\ now = 0
    /\ \E S \in SUBSET Codes :
         /\ S # {}
         /\ companies =
              { CompanyDataModel(IF code = DeadCode THEN 1 ELSE 2,
                    parse_company(code, "youcontrol",
                                  Response("ok", FALSE, FullEls("a"), <<>>), 0).data) :
                code \in S }
    /\ subs = {}
    /\ companySeq = 2
    /\ subSeq = 0
    /\ pc = [p \in Procs |-> "idle"]
    /\ frame = [p \in Procs |-> IdleFrame]
    /\ uow = [p \in Procs |-> <<>>]
    /\ out = [p \in Procs |-> IdleOut]
    /\ ops = 0

NextSched ==
    \/ TickSched
    \/ \E p \in Procs :
         \/ TimerFire(p)
         \/ FetchSteady(p)
         \/ Update(p)
         \/ Commit(p)
         \/ Respond(p)

\* The clock runs, the trigger keeps firing and a running job keeps going.
FairSched ==
    /\ WF_vars(TickSched)
    /\ WF_vars(\E p \in Procs : TimerFire(p))
    /\ \A p \in Procs :
         /\ WF_vars(FetchSteady(p))
         /\ WF_vars(Update(p))
         /\ WF_vars(Commit(p))
         /\ WF_vars(Respond(p))

\* The scheduler alone, with no inbound request.
SpecSched == InitSched /\ [][NextSched]_vars /\ FairSched

\* ------------------------------------------------------------------ claims

\* ------------------------------------------------------------------ notifications

Str(text) == [type |-> "str", body |-> NoneV, text |-> text]

\* render_message: the rendered template wrapped in an HTMLResponse.
render_message(context) == [type |-> "HTMLResponse", body |-> context, text |-> NoneV]

\* message_content.body.decode("utf-8") when it is an HTMLResponse.
Decode(message) == IF message.type = "HTMLResponse" THEN Str(message.body) ELSE message

Raised(err) == [raised |-> TRUE, err |-> err, value |-> FALSE]
Returned(value) == [raised |-> FALSE, err |-> "", value |-> value]

\* EmailService.send_email(subject, body, recipients): body.body is read before
\* the try; a failure of the SMTP exchange is caught and answered with False.
send_email(subject, body, recipients, smtp_ok) ==
    IF body.type # "HTMLResponse" THEN Raised("AttributeError") ELSE Returned(smtp_ok)

\* notify_user(email, subject, message):
\* await email_service.send_email(email, subject, message); send_email is not a
\* coroutine function, so awaiting the bool it returns raises TypeError.
notify_user(email, subject, message, smtp_ok) ==
    LET r == send_email(email, subject, message, smtp_ok)
    IN IF r.raised THEN r ELSE Raised("TypeError")

\* The lookup finds no company and the function answers as if it had failed.
NotifyAbsent_Raises(p) ==
    /\ uow' = [uow EXCEPT ![p] = ExitAll(Enter(<<>>))]
    /\ pc' = [pc EXCEPT ![p] = "done"]
    /\ out' = [out EXCEPT ![p] = [IdleOut EXCEPT !.status = "error",
                                                !.err = "CompanyNotFoundError"]]

\* if not company: return, through __aexit__ without an exception.
NotifyAbsent(p) ==
    /\ uow' = [uow EXCEPT ![p] = ExitAll(Enter(<<>>))]
    /\ pc' = [pc EXCEPT ![p] = "done"]
    /\ out' = [out EXCEPT ![p] = [IdleOut EXCEPT !.status = "ok"]]

\* notify_subscribers_of_update up to the company lookup.
NotifyStart(p, company_id) ==
    /\ p \in ApiProcs
    /\ CanStart(p)
    /\ ops' = ops + 1
    /\ LET rows == RowsById(company_id)
           found == rows # {}
           company == IF found THEN CHOOSE r \in rows : TRUE ELSE NoModel
       IN /\ frame' = [frame EXCEPT ![p] = [IdleFrame EXCEPT !.handler = "notify",
                                              !.cid = company_id, !.found = found,
                                              !.company = company]]
          /\ IF ~found
             THEN NotifyAbsent(p)
             ELSE /\ uow' = [uow EXCEPT ![p] = Enter(<<>>)]
                  /\ pc' = [pc EXCEPT ![p] = "notify_query"]
                  /\ out' = [out EXCEPT ![p] = IdleOut]
    /\ UNCHANGED <<now, companies, subs, companySeq, subSeq>>

\* get_users_subscribed_to_company(company_id): one user per subscription row
\* of the company, in the order the database returns them.
NotifyQuery(p) ==
    /\ Quiet
    /\ pc[p] = "notify_query"
    /\ \E rows \in Orders({s \in subs : s.company_id = frame[p].cid}) :
         IF rows = <<>>
         THEN Return(p, NoModel) /\ UNCHANGED frame
         ELSE /\ frame' = [frame EXCEPT ![p].users = [k \in 1..Len(rows) |-> rows[k].user_id],
                                        ![p].i = 1]
              /\ pc' = [pc EXCEPT ![p] = "notify"]
              /\ UNCHANGED <<companies, subs, uow, out>>
    /\ UNCHANGED <<now, companySeq, subSeq, ops>>

\* The body of the loop for one subscriber: render, decode, notify_user.
NotifySend(p) ==
    /\ Quiet
    /\ pc[p] = "notify"
    /\ \E smtp_ok \in BOOLEAN :
         LET user == frame[p].users[frame[p].i]
             message_content == Decode(render_message(<<user, frame[p].company.name>>))
             r == notify_user(Str(user), Str("Company Update Notification"),
                              message_content, smtp_ok)
             fr == [frame[p] EXCEPT !.attempts = Append(@, user)]
         IN IF r.raised
            THEN /\ Raise(p, r.err, 0)
                 /\ frame' = [frame EXCEPT ![p] = fr]
            ELSE IF fr.i < Len(fr.users)
            THEN /\ frame' = [frame EXCEPT ![p] = [fr EXCEPT !.i = @ + 1]]
                 /\ UNCHANGED <<companies, subs, uow, out, pc>>
            ELSE /\ Return(p, NoModel)
                 /\ frame' = [frame EXCEPT ![p] = fr]
    /\ UNCHANGED <<now, companySeq, subSeq, ops>>

CompanyIds == 1..MaxCompanyIds

\* The companies stored before any subscription: some of the codes, each as a
\* first fetch at time 0 left it.
InitNotify ==
    /\ now = 0
    /\ \E S \in SUBSET Codes :
         companies =
           { CompanyDataModel(IF code = DeadCode THEN 1 ELSE 2,
                 parse_company(code, "youcontrol",
                               Response("ok", FALSE, FullEls("a"), <<>>), 0).data) :
             code \in S }
    /\ subs = {}
    /\ companySeq = 2
    /\ subSeq = 0
    /\ pc = [p \in Procs |-> "idle"]
    /\ frame = [p \in Procs |-> IdleFrame]
    /\ uow = [p \in Procs |-> <<>>]
    /\ out = [p \in Procs |-> IdleOut]
    /\ ops = 0

NextNotify ==
    \E p \in ApiProcs :
        \/ \E company_id \in CompanyIds : NotifyStart(p, company_id)
        \/ NotifyQuery(p)
        \/ NotifySend(p)
        \/ \E code \in Codes, user \in Users : SubStart(p, code, user)
        \/ SubCheck(p)
        \/ SubAdd(p)
        \/ Commit(p)
        \/ CommitFail(p)
        \/ Respond(p)

SpecNotify == InitNotify /\ [][NextNotify]_vars

\* ------------------------------------------------------------------ one event loop

\* parse_company is an ordinary function: time.sleep(3) and requests.get run
\* on the event loop's thread, and no await lies between a handler's last
\* query and its call. While a handler is in it no other coroutine of the
\* process runs.
LoopFree(p) == \A q \in Procs \ {p} : pc[q] # "fetch"

\* The handlers and the scheduler's job as coroutines of one event loop.
NextLoop ==
    \/ Tick
    \/ \E p \in Procs :
         /\ LoopFree(p)
         /\ \/ \E code \in Codes, use_cache \in BOOLEAN :
                 GetLookup(p, code, "youcontrol", use_cache)
            \/ Fetch(p)
            \/ Update(p)
            \/ Insert(p)
            \/ Commit(p)
            \/ CommitFail(p)
            \/ SweepStart(p)
            \/ Respond(p)

SpecLoop == Init /\ [][NextLoop]_vars

\* A request for the code that the process can take up now.
Serve(p, code) == LoopFree(p) /\ GetLookup(p, code, "youcontrol", TRUE)

\* ------------------------------------------------------------------ cancellation

\* The request's task is cancelled while the handler awaits update_one,
\* add_one or, with its statement executed, before uow.commit() is sent:
\* CancelledError is raised at the await and leaves through every __aexit__.
Cancel(p) ==
    /\ Quiet
    /\ frame[p].handler = "get"
    /\ pc[p] \in {"update", "insert", "commit"}
    /\ Raise(p, "CancelledError", 0)
    /\ UNCHANGED <<now, companySeq, subSeq, frame, ops>>

NextCancel ==
    \/ Tick
    \/ \E p \in ApiProcs :
         \/ \E code \in Codes, use_cache \in BOOLEAN :
              GetLookup(p, code, "youcontrol", use_cache)
         \/ Fetch(p)
         \/ Update(p)
         \/ Insert(p)
         \/ Commit(p)
         \/ Cancel(p)
         \/ Respond(p)

SpecCancel == Init /\ [][NextCancel]_vars

\* ------------------------------------------------------------------ every operation

\* The reads, the sweep, the subscriptions and the fan-out together.
NextAll ==
    \/ Next
    \/ \E p \in ApiProcs :
         \/ \E company_id \in CompanyIds : NotifyStart(p, company_id)
         \/ NotifyQuery(p)
         \/ NotifySend(p)

SpecAll == Init /\ [][NextAll]_vars

\* What parse_company or the construction of CompanyDataModel raises.
FetchErrors == {"HTTPError", "ConnectionError", "ValueError", "ValidationError"}

NoPending(p) == \A k \in 1..Len(uow[p]) : uow[p][k].pending = <<>>

\* C1 as stated: whenever get_company_data finds a stored record younger than
\* max_age it makes no fetch and no write and returns the stored record.
C1_HitForEveryCall ==
    \A p \in Procs :
        (frame[p].handler = "get" /\ frame[p].fresh) =>
            /\ pc[p] = "done" /\ out[p].status = "ok"
            /\ out[p].fetches = 0 /\ out[p].writes = 0 /\ NoPending(p)
            /\ out[p].value \in companies

\* C1 amended: whenever get_company_data, called with use_cache = true, finds
\* a stored record younger than max_age, it makes no fetch and no write and
\* returns a record equal in every field to the stored one.
C1_CacheHitPurity ==
    \A p \in Procs :
        (frame[p].handler = "get" /\ frame[p].fresh /\ frame[p].use_cache) =>
            /\ pc[p] = "done" /\ out[p].status = "ok"
            /\ out[p].fetches = 0 /\ out[p].writes = 0 /\ NoPending(p)
            /\ out[p].value \in companies

C1_Witness ==
    \E p \in Procs :
        /\ frame[p].handler = "get" /\ frame[p].fresh /\ frame[p].use_cache
        /\ pc[p] = "done"
        /\ out[p].value \in companies
        /\ out[p].value.code = frame[p].code

\* C2: a get_company_data call that finds a stale stored record and whose
\* fetch fails returns that stale record and no error.
C2_FailOpen ==
    \A p \in Procs :
        (/\ frame[p].handler = "get" /\ pc[p] = "done"
         /\ frame[p].found /\ ~frame[p].fresh
         /\ out[p].fetch_errors > 0) =>
            (out[p].status = "ok" /\ out[p].value = frame[p].company)

\* C3: a refresh that brings no new content never changes the last_updated of
\* the stored record: in every step, a stored record whose code and attribute
\* values stay the same keeps its last_updated.
C3_UnchangedRefreshIdempotent ==
    [][\A r \in companies : \A r2 \in companies' :
          (r2.id = r.id /\ SameContent(r, r2)) => r2.last_updated = r.last_updated]_vars

\* C4: a sweep over two or more stale records in which a fetch fails still
\* ends without an error and has fetched every stale record.
C4_SweepIsolation ==
    \A p \in Procs :
        (/\ frame[p].handler = "sweep" /\ pc[p] = "done"
         /\ Len(frame[p].stale) >= 2
         /\ out[p].fetch_errors > 0) =>
            (out[p].status = "ok" /\ out[p].fetches = Len(frame[p].stale))

\* C5: the store never holds two subscriptions of the same user to the same
\* company.
C5_SubscriptionUnique ==
    \A s1, s2 \in subs :
        (s1.user_id = s2.user_id /\ s1.company_id = s2.company_id) => s1 = s2

\* A step of handler p.
Stepped(p) ==
    pc'[p] # pc[p] \/ frame'[p] # frame[p] \/ out'[p] # out[p] \/ uow'[p] # uow[p]

\* C6: no step of a refresh cycle other than its successful end changes the
\* tables; in particular the step in which an exception leaves the unit of work
\* after statements were executed leaves every stored record as it was.
C6_Atomicity ==
    [][\A p \in Procs :
          (Stepped(p) /\ ~(pc'[p] = "done" /\ out'[p].status = "ok")) =>
              (companies' = companies /\ subs' = subs)]_vars

C6_Witness ==
    \E p \in Procs :
        /\ frame[p].handler = "get" /\ frame[p].found
        /\ pc[p] = "done" /\ out[p].status = "error"
        /\ out[p].writes = 1
        /\ frame[p].company \in companies

\* C7: when a refresh has committed a change of an existing record that has a
\* subscriber, it has called the fan-out for that record.
C7_ChangeTriggersFanout ==
    \A p \in Procs :
        (pc[p] = "done" /\ out[p].status = "ok") =>
            \A id \in out[p].changed :
                (\E s \in subs : s.company_id = id) => id \in out[p].fanout

\* C8: the refresh cycle never takes the branch that writes when the fetched
\* record has the code and the attribute values of the stored one.
C8_DiffIgnoresLastUpdated ==
    \A p \in Procs :
        pc[p] = "update" => ~SameContent(frame[p].parsed, frame[p].company)

\* The records differ in exactly one optional attribute.
OneOptionalDiff(a, b) ==
    /\ a.code = b.code
    /\ Cardinality({f \in AttrFields : a[f] # b[f]}) = 1

\* C9: when the fetched record differs from the stored one in exactly one
\* optional attribute, the cycle takes the branch that writes: at the commit
\* the update of the stored record with the fetched values is pending, and
\* when the cycle has ended without error the stored record holds them.
C9_DiffCompleteness ==
    \A p \in Procs :
        (/\ frame[p].handler = "get" /\ frame[p].found
         /\ frame[p].parsed # NoModel
         /\ OneOptionalDiff(frame[p].parsed, frame[p].company)) =>
            /\ pc[p] = "commit" =>
                 CurPending(uow[p]) =
                     <<[NoWrite EXCEPT !.kind = "update", !.id = frame[p].company.id,
                                       !.data = DictExcludeId(frame[p].parsed)]>>
            /\ (pc[p] = "done" /\ out[p].status = "ok") =>
                 \E r \in companies :
                     /\ r.id = frame[p].company.id
                     /\ DictExcludeId(r) = DictExcludeId(frame[p].parsed)

\* A cycle that ended well over a pair with one side null.
C9_Witness ==
    \E p \in Procs :
        /\ frame[p].handler = "get" /\ frame[p].found
        /\ OneOptionalDiff(frame[p].parsed, frame[p].company)
        /\ \E f \in AttrFields : frame[p].parsed[f] = NoneV /\ frame[p].company[f] # NoneV
        /\ pc[p] = "done" /\ out[p].status = "ok"
        /\ \E r \in companies : DictExcludeId(r) = DictExcludeId(frame[p].parsed)

\* C10: a get_company_data call that finds no stored record, or one of age
\* max_age or more, calls the fetch once, executes at most one write and
\* calls the fan-out at most once.
C10_MissSideEffects ==
    \A p \in Procs :
        (frame[p].handler = "get" /\ ~frame[p].fresh) =>
            /\ out[p].fetches <= 1
            /\ out[p].writes <= 1
            /\ Cardinality(out[p].fanout) <= 1
            /\ pc[p] = "done" => out[p].fetches = 1

\* A miss at the boundary age = max_age that fetched once and wrote once.
C10_Witness ==
    \E p \in Procs :
        /\ frame[p].handler = "get" /\ frame[p].found /\ ~frame[p].fresh
        /\ frame[p].parsed.last_updated - frame[p].company.last_updated = OneDay
        /\ pc[p] = "done" /\ out[p].status = "ok"
        /\ out[p].fetches = 1 /\ out[p].writes = 1

C12_FetchErrorFrame ==
    [][\A p \in Procs :
          (frame[p].handler = "get" /\ out'[p].fetch_errors > out[p].fetch_errors) =>
              /\ companies' = companies
              /\ out'[p].writes = 0
              /\ \A k \in 1..Len(uow'[p]) : uow'[p][k].pending = <<>>]_vars

\* A failed fetch over a stored record, which is still as the call found it.
C12_Witness ==
    \E p \in Procs :
        /\ frame[p].handler = "get" /\ pc[p] = "done"
        /\ frame[p].found
        /\ out[p].fetch_errors = 1 /\ out[p].status = "error"
        /\ out[p].writes = 0
        /\ companies # {} /\ frame[p].company \in companies

\* C13: no step lowers the last_updated stored for a company code.
C13_LastUpdatedMonotonic ==
    [][\A r \in companies : \A r2 \in companies' :
          r2.code = r.code => r2.last_updated >= r.last_updated]_vars

\* C14: the store never holds two company records with the same code.
C14_CodeUnique ==
    \A r1, r2 \in companies : r1.code = r2.code => r1 = r2

\* A read that saw no record for its code and lost the insert to another.
C14_Witness ==
    \E p \in Procs :
        /\ frame[p].handler = "get" /\ pc[p] = "done"
        /\ ~frame[p].found
        /\ out[p].status = "error" /\ out[p].err = "IntegrityError"
        /\ Cardinality(RowsByCode(frame[p].code)) = 1

\* C16: when a read's refresh has fetched a record that differs from the
\* stored one it compared with and has committed, the row with the stored
\* record's id holds the fetched values, and its last_updated is not earlier
\* than that of the record the refresh compared with.
C16_ChangedRefreshWrites ==
    \A p \in Procs :
        (/\ frame[p].handler = "get" /\ frame[p].found
         /\ pc[p] = "done" /\ out[p].status = "ok" /\ out[p].fetches = 1
         /\ Differs(frame[p].parsed, frame[p].company)) =>
            \E r \in companies :
                /\ r.id = frame[p].company.id
                /\ DictExcludeId(r) = DictExcludeId(frame[p].parsed)
                /\ r.last_updated >= frame[p].company.last_updated

\* A committed refresh that changed the status and moved last_updated on.
C16_Witness ==
    \E p \in Procs :
        /\ frame[p].handler = "get" /\ frame[p].found
        /\ pc[p] = "done" /\ out[p].status = "ok" /\ out[p].fetches = 1
        /\ frame[p].parsed.status # frame[p].company.status
        /\ \E r \in companies :
               /\ r.id = frame[p].company.id
               /\ r.status = frame[p].parsed.status
               /\ r.last_updated > frame[p].company.last_updated

\* C17: when a read that found no stored record has fetched and committed,
\* the store holds exactly one record for the code, the one the read returns,
\* the read executed one write and no fan-out was called.
C17_SilentInsert ==
    \A p \in Procs :
        (/\ frame[p].handler = "get" /\ ~frame[p].found
         /\ pc[p] = "done" /\ out[p].status = "ok") =>
            /\ RowsByCode(frame[p].code) = {out[p].value}
            /\ out[p].writes = 1
            /\ out[p].fanout = {}

C17_Witness ==
    \E p \in Procs :
        /\ frame[p].handler = "get" /\ ~frame[p].found
        /\ pc[p] = "done" /\ out[p].status = "ok"
        /\ out[p].value.id > 0 /\ out[p].value.code = frame[p].code
        /\ out[p].value \in companies
        /\ out[p].fetches = 1

\* The records a sweep works on.
StaleSet(fr) == {fr.stale[k] : k \in 1..Len(fr.stale)}

\* C18: a sweep's query selects exactly the stored records with last_updated
\* older than now - one day, and every record the sweep fetches and every
\* update it executes is of a record the query selected.
C18_SweepSelection ==
    [][\A p \in Procs :
          frame'[p].handler = "sweep" =>
              /\ frame[p].handler # "sweep" =>
                     StaleSet(frame'[p]) = {r \in companies : now - r.last_updated > OneDay}
              /\ frame'[p].i > 0 => frame'[p].company \in StaleSet(frame'[p])
              /\ \A k \in 1..Len(uow'[p]) : \A j \in 1..Len(uow'[p][k].pending) :
                     \E r \in StaleSet(frame'[p]) : r.id = uow'[p][k].pending[j].id]_vars

\* A sweep that updated the one stale record and left a fresh one alone.
C18_Witness ==
    \E p \in Procs :
        /\ frame[p].handler = "sweep" /\ Len(frame[p].stale) = 1
        /\ pc[p] = "done" /\ out[p].status = "ok"
        /\ out[p].fetches = 1 /\ out[p].writes = 1
        /\ \E r \in companies :
               r.code # frame[p].stale[1].code /\ now - r.last_updated <= OneDay

\* C15: no step changes the code of a stored company record.
C15_CodeImmutable ==
    [][\A r \in companies : \A r2 \in companies' :
          r2.id = r.id => r2.code = r.code]_vars

\* C19: at most one sweep is in progress at any time.
C19_NonReentrant ==
    \A p, q \in Procs :
        (/\ frame[p].handler = "sweep" /\ pc[p] # "idle"
         /\ frame[q].handler = "sweep" /\ pc[q] # "idle") => p = q

\* A sweep is in its loop, the clock has reached the next firing and another
\* job instance could run, yet none does.
C19_Witness ==
    \E p \in Procs :
        /\ frame[p].handler = "sweep" /\ pc[p] = "update" /\ frame[p].i = 1
        /\ frame[p].parsed.last_updated < now
        /\ \A q \in Procs \ {p} : pc[q] = "idle" /\ frame[q].handler = "none"

\* The sweep's query would select the stored record of the code.
StaleCode(code) == \E r \in companies : r.code = code /\ now - r.last_updated > OneDay

\* The stored record of the code is not older than one day (a tick of the
\* clock is a whole day, so a refresh that commits a tick after its fetch
\* leaves the record at that age).
FreshCode(code) == \E r \in companies : r.code = code /\ now - r.last_updated <= OneDay

\* C20: with the scheduler running and no inbound request, a stored record
\* that is stale and whose fetch succeeds is eventually fresh again.
C20_StaleEventuallyFresh == StaleCode(LiveCode) ~> FreshCode(LiveCode)

\* C21: a code without a stored record gets one only by the commit of a read
\* whose single fetch succeeded, and the record is the fetched one; that
\* record carries the time of its fetch, so it is fresh and never stale when
\* fetched; a fetch that fails for a code without a record leaves it without.
C21_UnknownToFresh ==
    [][/\ \A code \in Codes :
            (RowsByCode(code) = {} /\ RowsByCode(code)' # {}) =>
                \E p \in ApiProcs :
                    /\ frame[p].handler = "get" /\ frame[p].code = code
                    /\ ~frame[p].found
                    /\ out[p].fetches = 1 /\ out[p].fetch_errors = 0
                    /\ pc[p] = "commit" /\ pc'[p] = "done" /\ out'[p].status = "ok"
                    /\ RowsByCode(code)' = {frame[p].parsed}
                    /\ frame[p].parsed.last_updated <= now
       /\ \A p \in Procs :
            (pc[p] = "fetch" /\ pc'[p] = "insert") =>
                /\ frame'[p].parsed.last_updated = now
                /\ IsFresh(TRUE, frame'[p].parsed, now)
       /\ \A p \in Procs :
            (/\ frame[p].handler = "get" /\ ~frame[p].found
             /\ out'[p].fetch_errors > out[p].fetch_errors) =>
                /\ RowsByCode(frame[p].code)' = RowsByCode(frame[p].code)
                /\ pc'[p] = "done" /\ out'[p].status = "error"]_vars

\* A first read found no record at a later time than the start, fetched, and
\* its commit stored the fetched record, which is fresh.
C21_Witness ==
    \E p \in Procs :
        /\ frame[p].handler = "get" /\ ~frame[p].found
        /\ pc[p] = "done" /\ out[p].status = "ok" /\ out[p].fetches = 1
        /\ now > 0
        /\ RowsByCode(frame[p].code) = {frame[p].parsed}
        /\ IsFresh(TRUE, frame[p].parsed, now)

\* C22: notify_subscribers_of_update for an id without a company returns
\* normally: no notification is attempted, no statement is executed and
\* nothing is raised.
C22_FanoutOnMissingCompany ==
    \A p \in Procs :
        (frame[p].handler = "notify" /\ ~frame[p].found) =>
            /\ pc[p] = "done"
            /\ out[p].status = "ok" /\ out[p].err = ""
            /\ frame[p].attempts = <<>>
            /\ out[p].writes = 0 /\ NoPending(p)
            /\ \A k \in 1..Len(uow[p]) : uow[p][k].exits = 1

\* The fan-out ran for an id without a company while subscriptions exist.
C22_Witness ==
    \E p \in Procs :
        /\ frame[p].handler = "notify" /\ ~frame[p].found /\ pc[p] = "done"
        /\ RowsById(frame[p].cid) = {}
        /\ subs # {}

\* C23: a notification that fails does not leave the fan-out: the fan-out
\* ends normally and every subscriber got exactly one attempt.
C23_FanoutIsolation ==
    \A p \in Procs :
        (frame[p].handler = "notify" /\ frame[p].found /\ pc[p] = "done") =>
            /\ out[p].status = "ok"
            /\ Len(frame[p].attempts) = Len(frame[p].users)
            /\ \A u \in Users :
                 (\E s \in subs : s.user_id = u /\ s.company_id = frame[p].cid) =>
                     Cardinality({k \in 1..Len(frame[p].attempts) :
                                     frame[p].attempts[k] = u}) = 1

\* C24: subscribing to a code without a stored record fails with
\* CompanyNotFoundError and executes no statement; every subscription, stored
\* or pending, refers to a stored company.
C24_SubscribeNeedsCompany ==
    /\ \A p \in Procs :
         (frame[p].handler = "subscribe" /\ ~frame[p].found) =>
             /\ pc[p] = "done"
             /\ out[p].status = "error" /\ out[p].err = "CompanyNotFoundError"
             /\ out[p].writes = 0 /\ NoPending(p)
    /\ \A s \in subs : RowsById(s.company_id) # {}
    /\ \A p \in Procs : \A k \in 1..Len(uow[p]) : \A j \in 1..Len(uow[p][k].pending) :
         uow[p][k].pending[j].kind = "sub" => RowsById(uow[p][k].pending[j].cid) # {}

\* A subscription to a code without a record was refused while another
\* company has a record and a subscriber.
C24_Witness ==
    \E p \in Procs :
        /\ frame[p].handler = "subscribe" /\ ~frame[p].found /\ pc[p] = "done"
        /\ RowsByCode(frame[p].code) = {}
        /\ out[p].err = "CompanyNotFoundError"
        /\ subs # {}

\* The statements the handlers' sessions hold.
AllPending ==
    UNION { UNION { { uow[q][k].pending[j] : j \in 1..Len(uow[q][k].pending) } :
                    k \in 1..Len(uow[q]) } :
            q \in Procs }

\* C25: whatever refreshes run together, every stored row after a step is a
\* row stored before it or the complete record one refresh wrote (every
\* field from that one fetch), never a mix of two.
C25_NoPartialInterleaving ==
    [][\A r2 \in companies' :
          \/ r2 \in companies
          \/ \E w \in AllPending :
                /\ w.kind \in {"insert", "update"}
                /\ r2 = CompanyDataModel(w.id, w.data)]_vars

\* A read and a sweep refreshed the same stored record with different
\* fetched values; the read has committed its record whole and the sweep is
\* about to write its own.
C25_Witness ==
    \E p, q \in Procs :
        /\ frame[p].handler = "get" /\ frame[p].found
        /\ pc[p] = "done" /\ out[p].status = "ok" /\ out[p].writes = 1
        /\ frame[q].handler = "sweep" /\ pc[q] = "update"
        /\ frame[q].company.id = frame[p].company.id
        /\ ~SameContent(frame[q].parsed, frame[p].parsed)
        /\ CompanyDataModel(frame[p].company.id, DictExcludeId(frame[p].parsed))
              \in companies

\* C26: no handler has a session open while it fetches.
C26_FetchBeforeSession ==
    \A p \in Procs : pc[p] = "fetch" => uow[p] = <<>>

\* C27: when a handler leaves its unit of work, the statements of its session
\* are committed if it returns and rolled back if it raises, the session is
\* closed and holds nothing, and an exception reaches the caller; a handler
\* with one scope ends each of its sessions exactly once.
C27_ExitDiscipline ==
    [][\A p \in Procs :
          (pc[p] # "done" /\ pc'[p] = "done") =>
              LET pending == IF uow[p] = <<>> THEN <<>> ELSE CurPending(uow[p])
                  u2 == uow'[p]
              IN /\ out'[p].status \in {"ok", "error"}
                 /\ out'[p].status = "ok" =>
                      /\ companies' = ApplyCompanies(companies, pending)
                      /\ subs' = ApplySubs(subs, pending)
                      /\ out'[p].err = ""
                 /\ out'[p].status = "error" =>
                      /\ companies' = companies
                      /\ subs' = subs
                      /\ out'[p].err # ""
                 /\ u2 # <<>>
                 /\ u2[Len(u2)].pending = <<>>
                 /\ u2[Len(u2)].exits >= 1
                 /\ frame'[p].handler = "subscribe" =>
                      \A k \in 1..Len(u2) : u2[k].exits = 1]_vars

\* A subscription was added to the session, the commit raised, and the
\* handler left with the error: the subscription is not stored.
C27_Witness ==
    \E p \in Procs :
        /\ frame[p].handler = "subscribe" /\ pc[p] = "done"
        /\ out[p].status = "error" /\ out[p].err = "DBAPIError"
        /\ out[p].writes = 1
        /\ ~\E s \in subs : s.user_id = frame[p].user /\ s.company_id = frame[p].cid
        /\ \A k \in 1..Len(uow[p]) : uow[p][k].exits = 1 /\ uow[p][k].pending = <<>>

\* C28: a request that would be a cache hit is served without waiting for a
\* fetch: whenever a slot is free and the stored record of a code is within
\* the window, the process can take the request up at once.
C28_HitsNeverWait ==
    \A p \in ApiProcs : \A r \in companies :
        (CanStart(p) /\ CacheHit(TRUE, TRUE, r, now)) => ENABLED Serve(p, r.code)

PageOmitsCode(source, resp) ==
    source = "clarity" =>
        \/ resp.cells = <<>>
        \/ clean_text(Head(resp.cells)) \in {NoneV, <<>>}

\* C30: for the code and source of every fetch a handler is about to make and
\* every page the registry may answer, the dict parse_company returns has a
\* code that is not None, and the requested code when the page gives none.
C30_CodePopulated ==
    \A p \in Procs :
        pc[p] = "fetch" =>
            \A resp \in Pool("wide", frame[p].code, frame[p].source) :
                LET r == parse_company(frame[p].code, frame[p].source, resp, now)
                IN r.ok =>
                     /\ r.data.code # NoneV
                     /\ PageOmitsCode(frame[p].source, resp) =>
                            r.data.code = frame[p].code

\* The page holds none of the structure the source is read for.
NoStructure(resp) == resp.status = "ok" /\ ~resp.table /\ resp.els = NoEls

\* C31: for the code and source of every fetch a handler is about to make,
\* parse_company fails on a page without any of the expected structure
\* instead of returning a dict.
C31_MissingStructureFails ==
    \A p \in Procs :
        pc[p] = "fetch" =>
            \A resp \in Pool("wide", frame[p].code, frame[p].source) :
                NoStructure(resp) =>
                    ~parse_company(frame[p].code, frame[p].source, resp, now).ok

\* The full youcontrol page without the element of one attribute.
PageWithout(f) == Response("ok", FALSE, [FullEls("a") EXCEPT ![f] = Absent], <<>>)

\* C32: for every youcontrol fetch a handler is about to make and every
\* single attribute the page may lack, parse_company returns a dict that
\* CompanyDataModel accepts, with that attribute None.
C32_MissingOptionalField ==
    \A p \in Procs :
        (pc[p] = "fetch" /\ frame[p].source = "youcontrol") =>
            \A f \in AttrFields :
                LET r == parse_company(frame[p].code, frame[p].source, PageWithout(f), now)
                IN /\ PageWithout(f) \in Pool("wide", frame[p].code, frame[p].source)
                   /\ r.ok
                   /\ ModelValid(r.data)
                   /\ r.data[f] = NoneV

\* C33: no step removes a company row, and the rows change only when a read
\* or a sweep commits: every step of subscribe_user_to_company and of
\* notify_subscribers_of_update leaves the companies table as it is.
C33_NoDeleteOnlyRefreshMutates ==
    [][/\ \A r \in companies : \E r2 \in companies' : r2.id = r.id
       /\ companies' # companies =>
            \E p \in Procs :
                /\ frame[p].handler \in {"get", "sweep"}
                /\ pc[p] = "commit" /\ pc'[p] = "done"
                /\ out'[p].status = "ok"
       /\ \A p \in Procs :
            (/\ frame'[p].handler \in {"subscribe", "notify"}
             /\ <<pc[p], frame[p], uow[p], out[p]>> # <<pc'[p], frame'[p], uow'[p], out'[p]>>)
                => companies' = companies]_vars

\* The fan-out ran for a stored company with a subscriber and ended; the
\* company's row is the one its lookup found.
C33_Witness ==
    \E p \in Procs :
        /\ frame[p].handler = "notify" /\ frame[p].found /\ pc[p] = "done"
        /\ frame[p].attempts # <<>>
        /\ frame[p].company \in companies
        /\ \E s \in subs : s.company_id = frame[p].cid

\* C34: when a handler has left its unit of work, every session it opened
\* has been committed or rolled back and closed exactly once.
C34_NestedScopes ==
    \A p \in Procs :
        pc[p] = "done" => \A k \in 1..Len(uow[p]) : uow[p][k].exits = 1

\* C35: a sweep's updates reach the table only at its commit after the last
\* stale record; a sweep that raises leaves the table as it was when it
\* raised, whatever updates it had executed, and holds none of them.
C35_SweepOneBatch ==
    [][\A p \in Procs :
          (frame[p].handler = "sweep" /\ pc[p] # pc'[p]) =>
              /\ companies' # companies =>
                   /\ pc[p] = "commit" /\ pc'[p] = "done" /\ out'[p].status = "ok"
                   /\ frame[p].i = Len(frame[p].stale)
                   /\ companies' = ApplyCompanies(companies, CurPending(uow[p]))
              /\ (pc'[p] = "done" /\ out'[p].status = "error") =>
                   /\ companies' = companies
                   /\ NoPending(p)']_vars

\* A sweep over two stale records updated the first, then the fetch of the
\* second raised: the first record is stored as it was before the sweep.
C35_Witness ==
    \E p \in Procs :
        /\ frame[p].handler = "sweep" /\ pc[p] = "done"
        /\ out[p].status = "error" /\ out[p].fetch_errors = 1
        /\ out[p].writes = 1 /\ Len(frame[p].stale) = 2
        /\ frame[p].stale[1] \in companies
        /\ NoPending(p)

\* C36: a read with use_cache = false is in its one fetch or has made
\* exactly one, even when the stored record is fresh; a read with
\* use_cache = true that found a fresh record has made none and is answered
\* with the stored record.
C36_CacheBypass ==
    \A p \in Procs :
        frame[p].handler = "get" =>
            /\ ~frame[p].use_cache =>
                 \/ pc[p] = "fetch" /\ out[p].fetches = 0
                 \/ pc[p] # "fetch" /\ out[p].fetches = 1
            /\ (frame[p].use_cache /\ frame[p].fresh) =>
                 /\ pc[p] = "done" /\ out[p].fetches = 0
                 /\ out[p].value = frame[p].company

\* A read with use_cache = false found a fresh record and fetched once.
C36_Witness ==
    \E p \in Procs :
        /\ frame[p].handler = "get" /\ ~frame[p].use_cache
        /\ frame[p].found /\ frame[p].fresh
        /\ pc[p] = "done" /\ out[p].status = "ok" /\ out[p].fetches = 1

\* C37: a fetch with a source name other than youcontrol and clarity raises
\* ValueError whatever the registry would answer, reachable or not, so before
\* any request; the refresh that made it ends with that error, the tables
\* unchanged and nothing held by its sessions.
C37_UnsupportedSource ==
    [][\A p \in Procs :
          (/\ pc[p] = "fetch"
           /\ frame[p].source \notin {"youcontrol", "clarity"}) =>
              /\ \A resp \in Pool("wide", frame[p].code, frame[p].source)
                               \cup {Response("unreachable", FALSE, NoEls, <<>>)} :
                    parse_company(frame[p].code, frame[p].source, resp, now)
                        = Failed("ValueError")
              /\ pc'[p] # pc[p] =>
                    /\ pc'[p] = "done"
                    /\ out'[p].status = "error" /\ out'[p].err = "ValueError"
                    /\ out'[p].writes = 0
                    /\ companies' = companies /\ subs' = subs
                    /\ NoPending(p)']_vars

\* A read with an unsupported source name ended with ValueError while a
\* record of the code is stored.
C37_Witness ==
    \E p \in Procs :
        /\ frame[p].handler = "get"
        /\ frame[p].source \notin {"youcontrol", "clarity"}
        /\ pc[p] = "done" /\ out[p].err = "ValueError" /\ out[p].fetches = 1
        /\ frame[p].found /\ frame[p].company \in companies

\* C38: when a read that missed the cache has succeeded, with no other
\* handler running, a record is stored under the code it asked for and every
\* field of it other than the id equals the record the read returns.
C38_ReturnedMatchesStore ==
    \A p \in Procs :
        (/\ frame[p].handler = "get" /\ pc[p] = "done"
         /\ out[p].status = "ok" /\ out[p].fetches = 1
         /\ \A q \in Procs \ {p} : pc[q] = "idle") =>
            \E r \in RowsByCode(frame[p].code) :
                DictExcludeId(r) = DictExcludeId(out[p].value)

====
